---- MODULE Spec2Model ----
(***************************************************************************)
(* Model of the price oracle's aggregation engine                          *)
(* (src/src/price_aggregator.py, PriceAggregator).                         *)
(*                                                                         *)
(* Numbers.  A Python float is modelled as an exact rational [n, d] in      *)
(* lowest terms with d > 0.  The variable float_digits fixes the           *)
(* arithmetic of a run: 0 is arithmetic over the reals, where no operation *)
(* rounds; k > 0 is a floating-point format of k significant decimal       *)
(* digits in which every +, -, * and / rounds its exact result to the      *)
(* nearest representable number, ties to even, the way an IEEE-754 double  *)
(* does at 53 bits.  The decimal rounding the code asks for (round(x, k),  *)
(* the .1f format) is round-half-even on the exact value of its argument.  *)
(*                                                                         *)
(* Values.  A quote is a Python dict: a function from a set of keys to     *)
(* values; a value is a number (a rational), None, or a string.            *)
(* An exception raised by the code is the value [exc |-> name], which the  *)
(* operators propagate to the caller the way a raise unwinds the stack.    *)
(***************************************************************************)
EXTENDS Integers, Sequences, FiniteSets, TLC

VARIABLES source_prices, result, pc, float_digits,
          request, upstream, quote, response

vars == <<source_prices, result, pc, float_digits,
          request, upstream, quote, response>>

(***************************************************************************)
(* Bounds                                                                  *)
(***************************************************************************)
\* largest number of quotes handed to one aggregate_prices call
MaxSources == 3

\* significant decimal digits of the floating-point format of SpecFloat
SignificantDigits == 4

(***************************************************************************)
(* Rational arithmetic (Python float/int arithmetic, exact)                *)
(***************************************************************************)
Abs(i) == IF i < 0 THEN -i ELSE i

RECURSIVE GCD(_, _)
GCD(a, b) == IF b = 0 THEN a ELSE GCD(b, a % b)

\* the rational n/d in lowest terms, d > 0 required
Rat(n, d) ==
    LET g == GCD(Abs(n), d)
    IN  [n |-> n \div g, d |-> d \div g]

Int2Rat(i) == [n |-> i, d |-> 1]

Zero == Int2Rat(0)

IsNum(v) == DOMAIN v = {"n", "d"}

\* comparison over the least common denominator
RLess(a, b) ==
    LET g == GCD(a.d, b.d)
    IN  a.n * (b.d \div g) < b.n * (a.d \div g)

RLeq(a, b) == ~RLess(b, a)

RGreater(a, b) == RLess(b, a)

RIsZero(a) == a.n = 0

RNeg(a) == [n |-> -a.n, d |-> a.d]

\* a + b over the least common denominator
RAdd(a, b) ==
    LET g == GCD(a.d, b.d)
    IN  Rat(a.n * (b.d \div g) + b.n * (a.d \div g), (a.d \div g) * b.d)

RSub(a, b) == RAdd(a, RNeg(b))

\* a * b, cancelling across the fraction bars before multiplying
RMul(a, b) ==
    LET g1 == GCD(Abs(a.n), b.d)
        g2 == GCD(Abs(b.n), a.d)
    IN  [n |-> (a.n \div g1) * (b.n \div g2),
         d |-> (a.d \div g2) * (b.d \div g1)]

\* 1/a for a # 0
RInv(a) == IF a.n < 0 THEN [n |-> -a.d, d |-> -a.n] ELSE [n |-> a.d, d |-> a.n]

RMin2(a, b) == IF RLess(b, a) THEN b ELSE a

RMax2(a, b) == IF RLess(a, b) THEN b ELSE a

(***************************************************************************)
(* Exceptions                                                              *)
(***************************************************************************)
Raise(name) == [exc |-> name]

IsExc(v) == DOMAIN v = {"exc"}

(***************************************************************************)
(* round(x, ndigits) and the .1f format: round half to even at 10^-k       *)
(***************************************************************************)
\* 10^k
RECURSIVE Ten(_)
Ten(k) == IF k = 0 THEN 1 ELSE 10 * Ten(k - 1)

\* nearest integer to the rational a, ties to the even integer
RoundHalfEven(a) ==
    LET q == a.n \div a.d
        r == a.n % a.d
    IN  IF 2 * r < a.d THEN q
        ELSE IF 2 * r > a.d THEN q + 1
        ELSE IF q % 2 = 0 THEN q ELSE q + 1

Pow10(k) == IF k = 1 THEN 10 ELSE IF k = 2 THEN 100 ELSE IF k = 3 THEN 1000 ELSE 1000000

round(a, ndigits) ==
    Rat(RoundHalfEven(RMul(a, Int2Rat(Pow10(ndigits)))), Pow10(ndigits))

(***************************************************************************)
(* Floating-point rounding of the result of an arithmetic operation        *)
(***************************************************************************)
\* long division of r/d (0 <= r < d) after the integer m: decimal places are
\* taken, k so far, until m has the full number of digits or nothing is left
RECURSIVE Significand(_, _, _, _, _)
RECURSIVE NextPlace(_, _, _, _, _)
Significand(m, r, d, k, digits) ==
    IF m >= Ten(digits - 1) \/ r = 0 THEN [m |-> m, r |-> r, d |-> d, k |-> k]
    ELSE NextPlace(m, r * (10 \div GCD(10, d)), d \div GCD(10, d), k, digits)

\* one more place: r10/d10 is ten times the rest of the fraction
NextPlace(m, r10, d10, k, digits) ==
    Significand(10 * m + (r10 \div d10), r10 % d10, d10, k + 1, digits)

\* the least power of ten q with i / q below 10^digits
RECURSIVE Quantum(_, _, _)
Quantum(i, q, digits) ==
    IF i \div q < Ten(digits) THEN q ELSE Quantum(i, 10 * q, digits)

\* the significand s.m with s.k decimal places, rounded by the rest s.r/s.d
\* of the fraction, ties to even
RoundedSignificand(s) ==
    Rat(IF 2 * s.r > s.d \/ (2 * s.r = s.d /\ s.m % 2 = 1) THEN s.m + 1 ELSE s.m,
        Ten(s.k))

\* n/d rounded to a multiple of q, ties to even
RoundedMultiple(n, d, q) == Int2Rat(q * RoundHalfEven([n |-> n, d |-> d * q]))

\* n/d > 0 rounded to digits significant decimal digits
RoundSignificant(n, d, digits) ==
    IF n \div d >= Ten(digits)
    THEN RoundedMultiple(n, d, Quantum(n \div d, 1, digits))
    ELSE RoundedSignificand(Significand(n \div d, n % d, d, 0, digits))

\* r with the sign of i
Signed(i, r) == IF i < 0 THEN RNeg(r) ELSE r

\* the float nearest to the exact result x of an operation
fl(x) ==
    IF float_digits = 0 \/ x.n = 0 THEN x
    ELSE Signed(x.n, RoundSignificant(Abs(x.n), x.d, float_digits))

\* Python's a + b, a - b, a * b
add(a, b) == fl(RAdd(a, b))

sub(a, b) == fl(RSub(a, b))

mul(a, b) == fl(RMul(a, b))

\* Python's a / b: ZeroDivisionError when b == 0
truediv(a, b) ==
    IF RIsZero(b) THEN Raise("ZeroDivisionError") ELSE fl(RMul(a, RInv(b)))

(***************************************************************************)
(* Python values, dicts and lists                                          *)
(***************************************************************************)
None == [none |-> TRUE]

Str(s) == [s |-> s]

\* dict.get(key, default)
get(dict, key, default) == IF key \in DOMAIN dict THEN dict[key] ELSE default

\* sum(seq): the elements added to 0 from left to right
RECURSIVE SumSeq(_)
SumSeq(seq) ==
    IF seq = <<>> THEN Zero
    ELSE add(SumSeq(SubSeq(seq, 1, Len(seq) - 1)), seq[Len(seq)])

RECURSIVE min(_)
min(seq) == IF Len(seq) = 1 THEN seq[1] ELSE RMin2(Head(seq), min(Tail(seq)))

RECURSIVE max(_)
max(seq) == IF Len(seq) = 1 THEN seq[1] ELSE RMax2(Head(seq), max(Tail(seq)))

\* seq with its i-th element removed
RemoveAt(seq, i) == SubSeq(seq, 1, i - 1) \o SubSeq(seq, i + 1, Len(seq))

\* sorted(seq), ascending
RECURSIVE sorted(_)
sorted(seq) ==
    IF seq = <<>> THEN <<>>
    ELSE LET i == CHOOSE k \in 1..Len(seq) : \A j \in 1..Len(seq) : RLeq(seq[k], seq[j])
         IN  <<seq[i]>> \o sorted(RemoveAt(seq, i))

\* statistics.median: StatisticsError on no data, the middle element of an
\* odd-length sample, the mean of the two middle elements of an even one
median(data) ==
    LET s == sorted(data)
        n == Len(data)
    IN  IF n = 0 THEN Raise("StatisticsError")
        ELSE IF n % 2 = 1 THEN s[(n \div 2) + 1]
        ELSE truediv(add(s[n \div 2], s[(n \div 2) + 1]), Int2Rat(2))

(***************************************************************************)
(* PriceAggregator                                                         *)
(***************************************************************************)
MAX_SPREAD_PCT == Int2Rat(5)

\* the filter of aggregate_prices: price_usd present, not None, and > 0
IsValidSource(s) ==
    /\ get(s, "price_usd", None) # None
    /\ RGreater(get(s, "price_usd", None), Zero)

\* the warning strings, the formatted number kept beside the text
HighSpreadWarning(spread_pct) ==
    [text |-> "High price spread: {spread_pct:.1f}% between sources",
     spread_pct |-> round(spread_pct, 1)]

VeryHighSpreadWarning ==
    [text |-> "VERY HIGH SPREAD - Price may be unreliable or arbitrage opportunity"]

SingleSourceWarning == [text |-> "Single price source - confidence reduced"]

FailedSourcesWarning(failed) ==
    [text |-> "{failed} source(s) failed to provide price", failed |-> failed]

NoValidDataWarning == [text |-> "No valid price data available"]

ErrorWarning(error_msg) == [text |-> error_msg]

\* variant: the plain mean of the prices, the confidences ignored
_calculate_weighted_price_unweighted(prices, confidences) ==
    IF prices = <<>> THEN Zero
    ELSE truediv(SumSeq(prices), Int2Rat(Len(prices)))

\* variant: 0.0 instead of the median when the confidences sum to 0
_calculate_weighted_price_zero_fallback(prices, confidences) ==
    IF prices = <<>> THEN Zero
    ELSE LET weighted_sum ==
                 SumSeq([i \in 1..Len(prices) |-> mul(prices[i], confidences[i])])
             total_weight == SumSeq(confidences)
         IN  IF RIsZero(total_weight) THEN Zero
             ELSE truediv(weighted_sum, total_weight)

\* variant: the weighted mean without the zero-weight fallback
_calculate_weighted_price_unguarded(prices, confidences) ==
    IF prices = <<>> THEN Zero
    ELSE truediv(SumSeq([i \in 1..Len(prices) |-> mul(prices[i], confidences[i])]),
                 SumSeq(confidences))

_calculate_weighted_price(prices, confidences) ==
    IF prices = <<>> THEN Zero
    ELSE LET weighted_sum ==
                 SumSeq([i \in 1..Len(prices) |-> mul(prices[i], confidences[i])])
             total_weight == SumSeq(confidences)
         IN  IF RIsZero(total_weight) THEN median(prices)
             ELSE truediv(weighted_sum, total_weight)

\* variant: the confidence with an uncapped bonus of 0.1 per source
_calculate_confidence_uncapped_bonus(prices, confidences, spread_pct) ==
    LET base_confidence == median(confidences)
        source_bonus == mul(Rat(1, 10), Int2Rat(Len(prices)))
        spread_penalty ==
            IF RGreater(spread_pct, MAX_SPREAD_PCT)
            THEN RMin2(truediv(sub(spread_pct, MAX_SPREAD_PCT), Int2Rat(100)), Rat(3, 10))
            ELSE Zero
    IN  IF IsExc(base_confidence) THEN base_confidence
        ELSE LET confidence == sub(add(base_confidence, source_bonus), spread_penalty)
             IN  RMax2(Rat(1, 10), RMin2(Int2Rat(1), confidence))

\* variant: the confidence without the upper clamp min(1.0, .)
_calculate_confidence_no_upper_clamp(prices, confidences, spread_pct) ==
    LET base_confidence == median(confidences)
        source_bonus == RMin2(mul(Rat(1, 10), Int2Rat(Len(prices))), Rat(2, 10))
        spread_penalty ==
            IF RGreater(spread_pct, MAX_SPREAD_PCT)
            THEN RMin2(truediv(sub(spread_pct, MAX_SPREAD_PCT), Int2Rat(100)), Rat(3, 10))
            ELSE Zero
    IN  IF IsExc(base_confidence) THEN base_confidence
        ELSE RMax2(Rat(1, 10), sub(add(base_confidence, source_bonus), spread_penalty))

\* variant: the confidence without the lower clamp max(0.1, .)
_calculate_confidence_no_lower_clamp(prices, confidences, spread_pct) ==
    LET base_confidence == median(confidences)
        source_bonus == RMin2(mul(Rat(1, 10), Int2Rat(Len(prices))), Rat(2, 10))
        spread_penalty ==
            IF RGreater(spread_pct, MAX_SPREAD_PCT)
            THEN RMin2(truediv(sub(spread_pct, MAX_SPREAD_PCT), Int2Rat(100)), Rat(3, 10))
            ELSE Zero
    IN  IF IsExc(base_confidence) THEN base_confidence
        ELSE RMin2(Int2Rat(1), sub(add(base_confidence, source_bonus), spread_penalty))

_calculate_confidence(prices, confidences, spread_pct) ==
    LET base_confidence == median(confidences)
        source_bonus == RMin2(mul(Rat(1, 10), Int2Rat(Len(prices))), Rat(2, 10))
        spread_penalty ==
            IF RGreater(spread_pct, MAX_SPREAD_PCT)
            THEN RMin2(truediv(sub(spread_pct, MAX_SPREAD_PCT), Int2Rat(100)), Rat(3, 10))
            ELSE Zero
    IN  IF IsExc(base_confidence) THEN base_confidence
        ELSE LET confidence == sub(add(base_confidence, source_bonus), spread_penalty)
             IN  RMax2(Rat(1, 10), RMin2(Int2Rat(1), confidence))

\* variant: the escalated spread warning appended before the plain one
_generate_warnings_escalation_first(spread_pct, valid_sources, total_sources) ==
    (IF RGreater(spread_pct, Int2Rat(15)) THEN <<VeryHighSpreadWarning>> ELSE <<>>)
    \o (IF RGreater(spread_pct, MAX_SPREAD_PCT)
        THEN <<HighSpreadWarning(spread_pct)>> ELSE <<>>)
    \o (IF valid_sources = 1 THEN <<SingleSourceWarning>> ELSE <<>>)
    \o (IF valid_sources < total_sources
        THEN <<FailedSourcesWarning(total_sources - valid_sources)>> ELSE <<>>)
    \o (IF valid_sources = 0 THEN <<NoValidDataWarning>> ELSE <<>>)

_generate_warnings(spread_pct, valid_sources, total_sources) ==
    (IF RGreater(spread_pct, MAX_SPREAD_PCT)
        THEN <<HighSpreadWarning(spread_pct)>> ELSE <<>>)
    \o (IF RGreater(spread_pct, Int2Rat(15)) THEN <<VeryHighSpreadWarning>> ELSE <<>>)
    \o (IF valid_sources = 1 THEN <<SingleSourceWarning>> ELSE <<>>)
    \o (IF valid_sources < total_sources
        THEN <<FailedSourcesWarning(total_sources - valid_sources)>> ELSE <<>>)
    \o (IF valid_sources = 0 THEN <<NoValidDataWarning>> ELSE <<>>)

\* variant: the error result that reports the (empty) list of valid quotes
_create_error_result_valid_only(token_address, chain_id, error_msg, sources) ==
    [token_address |-> token_address,
     chain_id      |-> chain_id,
     price_usd     |-> Zero,
     confidence    |-> Zero,
     sources_count |-> 0,
     price_range   |-> [min |-> Zero, max |-> Zero, spread_percent |-> Zero],
     sources       |-> <<>>,
     warnings      |-> <<ErrorWarning(error_msg)>>,
     timestamp     |-> ""]

_create_error_result(token_address, chain_id, error_msg, sources) ==
    [token_address |-> token_address,
     chain_id      |-> chain_id,
     price_usd     |-> Zero,
     confidence    |-> Zero,
     sources_count |-> 0,
     price_range   |-> [min |-> Zero, max |-> Zero, spread_percent |-> Zero],
     sources       |-> sources,
     warnings      |-> <<ErrorWarning(error_msg)>>,
     timestamp     |-> ""]

\* variant: the statistics with the spread taken relative to the lowest price
PriceStatistics_spread_over_min(prices, confidences) ==
    IF Len(prices) = 1
    THEN [final_price |-> prices[1],
          price_min   |-> prices[1],
          price_max   |-> prices[1],
          spread_pct  |-> Zero,
          confidence  |-> mul(confidences[1], Rat(8, 10))]
    ELSE LET final_price == _calculate_weighted_price(prices, confidences)
             price_min   == min(prices)
             price_max   == max(prices)
         IN  IF IsExc(final_price) THEN final_price
             ELSE LET spread_pct ==
                          IF RGreater(final_price, Zero)
                          THEN mul(truediv(sub(price_max, price_min), price_min),
                                    Int2Rat(100))
                          ELSE Zero
                      confidence == _calculate_confidence(prices, confidences, spread_pct)
                  IN  IF IsExc(confidence) THEN confidence
                      ELSE [final_price |-> final_price,
                            price_min   |-> price_min,
                            price_max   |-> price_max,
                            spread_pct  |-> spread_pct,
                            confidence  |-> confidence]

\* variant: the statistics without the single-source discount of 0.8
PriceStatistics_undiscounted(prices, confidences) ==
    IF Len(prices) = 1
    THEN [final_price |-> prices[1],
          price_min   |-> prices[1],
          price_max   |-> prices[1],
          spread_pct  |-> Zero,
          confidence  |-> confidences[1]]
    ELSE LET final_price == _calculate_weighted_price(prices, confidences)
             price_min   == min(prices)
             price_max   == max(prices)
         IN  IF IsExc(final_price) THEN final_price
             ELSE LET spread_pct ==
                          IF RGreater(final_price, Zero)
                          THEN mul(truediv(sub(price_max, price_min), final_price),
                                   Int2Rat(100))
                          ELSE Zero
                      confidence == _calculate_confidence(prices, confidences, spread_pct)
                  IN  IF IsExc(confidence) THEN confidence
                      ELSE [final_price |-> final_price,
                            price_min   |-> price_min,
                            price_max   |-> price_max,
                            spread_pct  |-> spread_pct,
                            confidence  |-> confidence]

\* lines 69-82 of aggregate_prices: the price statistics of the valid quotes,
\* or the exception a step of the computation raised
PriceStatistics(prices, confidences) ==
    IF Len(prices) = 1
    THEN [final_price |-> prices[1],
          price_min   |-> prices[1],
          price_max   |-> prices[1],
          spread_pct  |-> Zero,
          confidence  |-> mul(confidences[1], Rat(8, 10))]
    ELSE LET final_price == _calculate_weighted_price(prices, confidences)
             price_min   == min(prices)
             price_max   == max(prices)
         IN  IF IsExc(final_price) THEN final_price
             ELSE LET spread_pct ==
                          IF RGreater(final_price, Zero)
                          THEN mul(truediv(sub(price_max, price_min), final_price),
                                   Int2Rat(100))
                          ELSE Zero
                      confidence == _calculate_confidence(prices, confidences, spread_pct)
                  IN  IF IsExc(confidence) THEN confidence
                      ELSE [final_price |-> final_price,
                            price_min   |-> price_min,
                            price_max   |-> price_max,
                            spread_pct  |-> spread_pct,
                            confidence  |-> confidence]

\* lines 87-101 of aggregate_prices: the PriceResult built from the statistics,
\* or the exception that computing them raised
PriceResult(token_address, chain_id, sources, valid_sources, st) ==
    IF IsExc(st) THEN st
    ELSE [token_address |-> token_address,
          chain_id      |-> chain_id,
          price_usd     |-> round(st.final_price, 6),
          confidence    |-> round(st.confidence, 3),
          sources_count |-> Len(valid_sources),
          price_range   |->
              [min |-> round(st.price_min, 6),
               max |-> round(st.price_max, 6),
               spread_percent |-> round(st.spread_pct, 2)],
          sources       |-> valid_sources,
          warnings      |->
              _generate_warnings(st.spread_pct, Len(valid_sources), Len(sources)),
          timestamp     |-> ""]

\* a result listing the given quotes
ListingSources(r, sources) == IF IsExc(r) THEN r ELSE [r EXCEPT !.sources = sources]

\* variant: the result lists every input quote, valid or not
aggregate_prices_raw_sources(token_address, chain_id, sources) ==
    LET valid_sources == SelectSeq(sources, IsValidSource)
    IN  IF valid_sources = <<>>
        THEN _create_error_result(token_address, chain_id,
                                  "No valid price sources available", sources)
        ELSE LET prices == [i \in 1..Len(valid_sources) |-> valid_sources[i]["price_usd"]]
                 confidences ==
                     [i \in 1..Len(valid_sources) |->
                         get(valid_sources[i], "confidence", Rat(1, 2))]
             IN  ListingSources(PriceResult(token_address, chain_id, sources, valid_sources,
                                            PriceStatistics(prices, confidences)),
                                sources)

\* aggregate_prices: the PriceResult, or the exception that propagates
aggregate_prices(token_address, chain_id, sources) ==
    LET valid_sources == SelectSeq(sources, IsValidSource)
    IN  IF valid_sources = <<>>
        THEN _create_error_result(token_address, chain_id,
                                  "No valid price sources available", sources)
        ELSE LET prices == [i \in 1..Len(valid_sources) |-> valid_sources[i]["price_usd"]]
                 confidences ==
                     [i \in 1..Len(valid_sources) |->
                         get(valid_sources[i], "confidence", Rat(1, 2))]
             IN  PriceResult(token_address, chain_id, sources, valid_sources,
                             PriceStatistics(prices, confidences))

(***************************************************************************)
(* CoinGeckoFetcher                                                        *)
(***************************************************************************)
\* an exception of the given type whose str() is message
RaiseMsg(type, message) == [exc |-> type, message |-> message]

\* v is an exception propagating out of a call
Raised(v) == "exc" \in DOMAIN v

\* str.lower() on the addresses in use; every other string of the model is
\* already in lower case
lower(s) ==
    CASE s = "0xC02aaA39b223FE8D0A0e5C4F27eAD9083C756Cc2" -> "0xc02aaa39b223fe8d0a0e5c4f27ead9083c756cc2"
      [] s = "0xA0b86991c6218b36c1d19D4a2e9Eb0cE3606eB48" -> "0xa0b86991c6218b36c1d19d4a2e9eb0ce3606eb48"
      [] s = "0xdAC17F958D2ee523a2206206994597C13D831ec7" -> "0xdac17f958d2ee523a2206206994597c13d831ec7"
      [] s = "0x6B175474E89094C44Da98b954EedeAC495271d0F" -> "0x6b175474e89094c44da98b954eedeac495271d0f"
      [] s = "0x2260FAC5E5542a773Aa44fBCfeDf7C193bc2C599" -> "0x2260fac5e5542a773aa44fbcfedf7c193bc2c599"
      [] s = "0x1f9840a85d5aF5bf1D1762F925BDADdC4201F984" -> "0x1f9840a85d5af5bf1d1762f925bdaddc4201f984"
      [] s = "0x7Fc66500c84A76Ad7e9c93437bFc5Ac33E2DDaE9" -> "0x7fc66500c84a76ad7e9c93437bfc5ac33e2ddae9"
      [] s = "0x514910771AF9Ca656af840dff83E8264EcF986CA" -> "0x514910771af9ca656af840dff83e8264ecf986ca"
      [] OTHER -> s

TOKEN_IDS ==
    ("0xC02aaA39b223FE8D0A0e5C4F27eAD9083C756Cc2" :> Str("weth"))
    @@ ("0xA0b86991c6218b36c1d19D4a2e9Eb0cE3606eB48" :> Str("usd-coin"))
    @@ ("0xdAC17F958D2ee523a2206206994597C13D831ec7" :> Str("tether"))
    @@ ("0x6B175474E89094C44Da98b954EedeAC495271d0F" :> Str("dai"))
    @@ ("0x2260FAC5E5542a773Aa44fBCfeDf7C193bc2C599" :> Str("wrapped-bitcoin"))
    @@ ("0x1f9840a85d5aF5bf1D1762F925BDADdC4201F984" :> Str("uniswap"))
    @@ ("0x7Fc66500c84A76Ad7e9c93437bFc5Ac33E2DDaE9" :> Str("aave"))
    @@ ("0x514910771AF9Ca656af840dff83E8264EcF986CA" :> Str("chainlink"))

\* the failure record of an adapter
SourceError(source, error) ==
    ("source" :> Str(source)) @@ ("error" :> Str(error)) @@ ("price_usd" :> None)

\* http is the outcome of session.get: an exception, or a response with a
\* status and the JSON object data
_get_simple_price(http, token_id, vs_currency) ==
    IF Raised(http) THEN http
    ELSE IF /\ http.status = 200
            /\ token_id.s \in DOMAIN http.data
            /\ vs_currency \in DOMAIN http.data[token_id.s]
         THEN LET token_data == http.data[token_id.s]
              IN  ("source" :> Str("coingecko"))
                  @@ ("method" :> Str("simple_price"))
                  @@ ("token_id" :> token_id)
                  @@ ("price_usd" :> get(token_data, vs_currency, None))
                  @@ ("change_24h" :> get(token_data, vs_currency \o "_24h_change", None))
                  @@ ("market_cap" :> get(token_data, vs_currency \o "_market_cap", None))
                  @@ ("volume_24h" :> get(token_data, vs_currency \o "_24h_vol", None))
                  @@ ("confidence" :> Rat(95, 100))
         ELSE SourceError("coingecko", "API returned " \o ToString(http.status))

_get_contract_price(http, contract_address, vs_currency) ==
    IF Raised(http) THEN http
    ELSE IF /\ http.status = 200
            /\ contract_address \in DOMAIN http.data
            /\ vs_currency \in DOMAIN http.data[contract_address]
         THEN LET token_data == http.data[contract_address]
              IN  ("source" :> Str("coingecko"))
                  @@ ("method" :> Str("contract_price"))
                  @@ ("contract_address" :> Str(contract_address))
                  @@ ("price_usd" :> get(token_data, vs_currency, None))
                  @@ ("change_24h" :> get(token_data, vs_currency \o "_24h_change", None))
                  @@ ("confidence" :> Rat(85, 100))
         ELSE SourceError("coingecko", "Token not found on CoinGecko")

\* CoinGeckoFetcher.get_token_price: the address is lowered, then looked up
\* among the keys of TOKEN_IDS
CoinGeckoFetcher_get_token_price(http, token_address_arg, vs_currency) ==
    LET token_address == lower(token_address_arg)
        token_id      == get(TOKEN_IDS, token_address, None)
        returned      == IF token_id # None
                         THEN _get_simple_price(http, token_id, vs_currency)
                         ELSE _get_contract_price(http, token_address, vs_currency)
    IN  IF Raised(returned) THEN SourceError("coingecko", returned.message)
        ELSE returned

(***************************************************************************)
(* DEXFetcher                                                              *)
(***************************************************************************)
STABLECOINS ==
    {"0xA0b86991c6218b36c1d19D4a2e9Eb0cE3606eB48",
     "0xdAC17F958D2ee523a2206206994597C13D831ec7",
     "0x6B175474E89094C44Da98b954EedeAC495271d0F"}

WETH == "0xC02aaA39b223FE8D0A0e5C4F27eAD9083C756Cc2"

\* the rough ETH price in USD of the WETH branch
eth_price == Int2Rat(3000)

\* the tail of _get_pair_price once the side of the token is known
PairQuote(token_address, pair_address, token_reserve, quote_reserve, quote_token) ==
    IF token_reserve = 0 THEN SourceError("dex", "Zero liquidity")
    ELSE LET price_in_quote    == fl(Rat(quote_reserve, token_reserve))
             quote_token_lower == lower(quote_token)
             priced(price_usd, confidence) ==
                 ("source" :> Str("dex"))
                 @@ ("method" :> Str("uniswap_v2_pair"))
                 @@ ("pair_address" :> pair_address)
                 @@ ("token_address" :> Str(token_address))
                 @@ ("quote_token" :> Str(quote_token))
                 @@ ("price_usd" :> price_usd)
                 @@ ("liquidity" :> [token_reserve |-> token_reserve,
                                     quote_reserve |-> quote_reserve])
                 @@ ("confidence" :> confidence)
         IN  IF quote_token_lower \in {lower(k) : k \in STABLECOINS}
             THEN priced(price_in_quote, Rat(90, 100))
             ELSE IF quote_token_lower = lower(WETH)
             THEN priced(mul(price_in_quote, eth_price), Rat(75, 100))
             ELSE SourceError("dex", "Unknown quote token")

\* pair is the outcome of the contract calls: an exception, or the reserves
\* and the two token addresses of the pair
_get_pair_price(pair, token_address, pair_address) ==
    IF Raised(pair) THEN SourceError("dex", "Pair fetch failed: " \o pair.message)
    ELSE LET reserve0 == pair.reserves[1]
             reserve1 == pair.reserves[2]
             token0   == lower(pair.token0)
             token1   == lower(pair.token1)
         IN  IF token_address = token0
             THEN PairQuote(token_address, pair_address, reserve0, reserve1, token1)
             ELSE IF token_address = token1
             THEN PairQuote(token_address, pair_address, reserve1, reserve0, token0)
             ELSE SourceError("dex", "Token not in pair")

\* DEXFetcher.get_token_price
DEXFetcher_get_token_price(w3_instances, pair, token_address_arg, chain_id, pair_address) ==
    LET w3 == get(w3_instances, chain_id, None)
    IN  IF w3 = None
        THEN SourceError("dex", "Chain " \o ToString(chain_id) \o " not supported")
        ELSE LET token_address == lower(token_address_arg)
             IN  IF pair_address # None
                 THEN _get_pair_price(pair, token_address, pair_address)
                 ELSE SourceError("dex", "Pair address required for DEX pricing")

(***************************************************************************)
(* The request handler of POST /entrypoints/price-oracle/invoke            *)
(***************************************************************************)
\* PriceResponse(...): pydantic rejects an Optional[float] field that is
\* neither None nor a number
PriceResponse(fields) ==
    IF \E k \in {"change_24h", "market_cap", "volume_24h"} :
           fields[k] # None /\ ~IsNum(fields[k])
    THEN RaiseMsg("ValidationError", "Input should be a valid number")
    ELSE fields

HTTPException(status_code, detail) == [status_code |-> status_code, detail |-> detail]

\* variant: a result without a valid source is answered with a 500
Respond_failing_without_sources(coingecko_data, engine, now) ==
    LET stamped == IF IsExc(engine) THEN engine
                   ELSE [engine EXCEPT !.timestamp = now \o "Z"]
        returned ==
            IF IsExc(engine) THEN RaiseMsg(engine.exc, "")
            ELSE IF engine.sources_count = 0
            THEN RaiseMsg("ValueError", "No valid price sources available")
            ELSE PriceResponse(
                     [token_address |-> stamped.token_address,
                      chain_id      |-> stamped.chain_id,
                      price_usd     |-> stamped.price_usd,
                      confidence    |-> stamped.confidence,
                      sources_count |-> stamped.sources_count,
                      price_range   |-> stamped.price_range,
                      change_24h    |-> get(coingecko_data, "change_24h", None),
                      market_cap    |-> get(coingecko_data, "market_cap", None),
                      volume_24h    |-> get(coingecko_data, "volume_24h", None),
                      sources       |-> stamped.sources,
                      warnings      |-> stamped.warnings,
                      timestamp     |-> stamped.timestamp])
    IN  [coingecko_data |-> coingecko_data,
         result         |-> stamped,
         response       |->
             IF Raised(returned)
             THEN HTTPException(500, "Price fetch failed: " \o returned.message)
             ELSE [status_code |-> 200, body |-> returned]]

\* lines 288-312 of the handler: the timestamp, the response model and the
\* except clause, given the adapter's quote and what aggregate_prices gave
Respond(coingecko_data, engine, now) ==
    LET stamped == IF IsExc(engine) THEN engine
                   ELSE [engine EXCEPT !.timestamp = now \o "Z"]
        returned ==
            IF IsExc(engine) THEN RaiseMsg(engine.exc, "")
            ELSE PriceResponse(
                     [token_address |-> stamped.token_address,
                      chain_id      |-> stamped.chain_id,
                      price_usd     |-> stamped.price_usd,
                      confidence    |-> stamped.confidence,
                      sources_count |-> stamped.sources_count,
                      price_range   |-> stamped.price_range,
                      change_24h    |-> get(coingecko_data, "change_24h", None),
                      market_cap    |-> get(coingecko_data, "market_cap", None),
                      volume_24h    |-> get(coingecko_data, "volume_24h", None),
                      sources       |-> stamped.sources,
                      warnings      |-> stamped.warnings,
                      timestamp     |-> stamped.timestamp])
    IN  [coingecko_data |-> coingecko_data,
         result         |-> stamped,
         response       |->
             IF Raised(returned)
             THEN HTTPException(500, "Price fetch failed: " \o returned.message)
             ELSE [status_code |-> 200, body |-> returned]]

\* lines 278-285 of the handler: the one quote goes to the engine
AggregateAndRespond(req, coingecko_data, now) ==
    Respond(coingecko_data,
            aggregate_prices(req.token_address, req.chain_id, <<coingecko_data>>),
            now)

\* the handler with everything it calls; now is datetime.utcnow().isoformat().
\* It yields the response and the values of its locals at the end
get_token_price(req, http, now) ==
    AggregateAndRespond(
        req,
        CoinGeckoFetcher_get_token_price(http, req.token_address, req.vs_currency),
        now)

(***************************************************************************)
(* Inputs: the quotes a source adapter can hand to the engine              *)
(***************************************************************************)
\* 3e-7 USD, a positive price below the 6-decimal quantum of the result
DustPrice == Rat(3, 10000000)

\* prices in USD: three around 1e-4, two of them within 5% of each other
\* (exactly 5% of the lower one) and the outer two between 5% and 15% apart,
\* and 5.006e-4, far more than 35% away from the others, whose double
\* 1.0012e-3 needs a fifth significant digit
ValidPrices ==
    {Rat(1000, 10000000), Rat(1050, 10000000), Rat(1100, 10000000),
     Rat(5006, 10000000)}

\* numeric prices that fail the positivity check
InvalidPrices == {Zero, Rat(-1000, 10000000)}

\* self-reported confidences in [0, 1]
Confidences == {Zero, Int2Rat(1)}

\* a quote with a numeric price and a confidence
PricedQuote(p, c) ==
    [k \in {"source", "price_usd", "confidence", "method"} |->
        IF k = "source" THEN Str("coingecko")
        ELSE IF k = "price_usd" THEN p
        ELSE IF k = "confidence" THEN c ELSE Str("simple_price")]

\* a quote with a numeric price and no confidence key
UnratedQuote(p) ==
    [k \in {"source", "price_usd"} |-> IF k = "source" THEN Str("dex") ELSE p]

\* the failure record of the adapters: price_usd None and an error text
FailedQuote ==
    [k \in {"source", "error", "price_usd"} |->
        IF k = "source" THEN Str("coingecko")
        ELSE IF k = "error" THEN Str("API returned 500") ELSE None]

\* a record without a price_usd key
PricelessQuote == [k \in {"source"} |-> Str("dex")]

Quotes ==
    {PricedQuote(p, c) : p \in ValidPrices, c \in Confidences}
    \cup {UnratedQuote(p) : p \in ValidPrices \cup {DustPrice}}
    \cup {PricedQuote(p, Int2Rat(1)) : p \in InvalidPrices}
    \cup {FailedQuote, PricelessQuote}

QuoteLists == UNION {[1..n -> Quotes] : n \in 0..MaxSources}

TokenAddress == "0xc02aaa39b223fe8d0a0e5c4f27ead9083c756cc2"

ChainId == 1

NoResult == [pending |-> TRUE]

\* no request is being served
Idle == [idle |-> TRUE]

(***************************************************************************)
(* The state machine: a caller hands a list of quotes to the engine, which  *)
(* is a pure function of it; the run ends when the call has returned       *)
(***************************************************************************)
Init ==
    /\ source_prices \in QuoteLists
    /\ result = NoResult
    /\ pc = "call"
    /\ float_digits = 0
    /\ request = Idle
    /\ upstream = Idle
    /\ quote = NoResult
    /\ response = NoResult

\* one call of PriceAggregator.aggregate_prices
Aggregate ==
    /\ pc = "call"
    /\ result' = aggregate_prices(TokenAddress, ChainId, source_prices)
    /\ pc' = "done"
    /\ UNCHANGED <<source_prices, float_digits, request, upstream, quote, response>>

Next == Aggregate

Spec == Init /\ [][Next]_vars

\* the quotes of the floating-point runs: prices with confidence 0 or 1, the
\* dust price and 5.006e-4 without a confidence, and the failure record
FloatQuotes ==
    {PricedQuote(p, c) :
        p \in {Rat(1000, 10000000), Rat(1100, 10000000), Rat(5006, 10000000)},
        c \in Confidences}
    \cup {UnratedQuote(DustPrice), UnratedQuote(Rat(5006, 10000000)), FailedQuote}

FloatQuoteLists == UNION {[1..n -> FloatQuotes] : n \in 0..MaxSources}

\* the same calls in floating-point arithmetic
InitFloat ==
    /\ source_prices \in FloatQuoteLists
    /\ result = NoResult
    /\ pc = "call"
    /\ float_digits = SignificantDigits
    /\ request = Idle
    /\ upstream = Idle
    /\ quote = NoResult
    /\ response = NoResult

SpecFloat == InitFloat /\ [][Next]_vars

(***************************************************************************)
(* The service: a request, the outcome of the one upstream call it leads   *)
(* to, and the adapters and the handler acting on them                     *)
(***************************************************************************)
\* an address outside TOKEN_IDS, and a second one for the other side of a pair
UnknownToken == "0x1111111111111111111111111111111111111111"

OtherToken == "0x2222222222222222222222222222222222222222"

PairAddress == "0x3333333333333333333333333333333333333333"

\* requested addresses: WETH as TOKEN_IDS spells it, WETH in lower case, and
\* a token TOKEN_IDS does not list
RequestAddresses == {WETH, TokenAddress, UnknownToken}

\* chain 1 has a Web3 instance, chain 137 has none
w3_instances == (1 :> Str("https://eth.llamarpc.com"))

Requests ==
    [token_address : RequestAddresses,
     chain_id      : {1, 137},
     vs_currency   : {"usd"},
     pair_address  : {None, Str(PairAddress)}]

\* the provider's entry for one token: no price key, or a price that is a
\* positive number, 0 or null, with a 24h change and a market cap that are
\* numbers or a text
TokenEntries ==
    {<<>>}
    \cup {("usd" :> p) @@ ("usd_24h_change" :> Rat(-5, 2))
          @@ ("usd_market_cap" :> Int2Rat(1000000)) @@ ("usd_24h_vol" :> Int2Rat(50000)) :
             p \in {Rat(1000, 10000000), Zero, None}}
    \cup {("usd" :> Rat(1000, 10000000)) @@ ("usd_market_cap" :> Str("n/a"))}
    \cup {("usd" :> p) @@ ("usd_24h_change" :> Str("n/a")) :
             p \in {Rat(1000, 10000000), None}}

\* the keys under which the provider files an entry: a token id or an address
ProviderKeys == {"weth", TokenAddress, UnknownToken}

\* outcomes of session.get: a timeout (whose str() is empty), a connection
\* error, or a response
HttpOutcomes ==
    {RaiseMsg("TimeoutError", ""),
     RaiseMsg("ClientConnectorError", "Cannot connect to host api.coingecko.com:443")}
    \cup {[status |-> st, data |-> d] :
             st \in {200, 429},
             d \in {<<>>} \cup {(k :> e) : k \in ProviderKeys, e \in TokenEntries}}

\* outcomes of the pair contract calls: a failed call, or reserves and tokens
PairOutcomes ==
    {RaiseMsg("ContractLogicError", "execution reverted")}
    \cup {[reserves |-> <<r0, r1>>, token0 |-> t[1], token1 |-> t[2]] :
             r0 \in {0, 1, 10000}, r1 \in {0, 1, 10000},
             t \in {<<UnknownToken, "0xA0b86991c6218b36c1d19D4a2e9Eb0cE3606eB48">>,
                    <<"0xA0b86991c6218b36c1d19D4a2e9Eb0cE3606eB48", UnknownToken>>,
                    <<UnknownToken, WETH>>,
                    <<WETH, "0xdAC17F958D2ee523a2206206994597C13D831ec7">>,
                    <<UnknownToken, OtherToken>>}}

\* datetime.utcnow().isoformat() at the time of the request
UtcNow == "2025-06-01T12:00:00.000000"

InitService ==
    /\ request \in Requests
    /\ upstream \in {[http |-> h] : h \in HttpOutcomes}
                    \cup {[pair |-> c] : c \in PairOutcomes}
    /\ source_prices = <<>>
    /\ result = NoResult
    /\ quote = NoResult
    /\ response = NoResult
    /\ float_digits = 0
    /\ pc = "request"

\* one call of CoinGeckoFetcher.get_token_price
CoinGeckoGetTokenPrice ==
    /\ pc = "request"
    /\ "http" \in DOMAIN upstream
    /\ quote' = CoinGeckoFetcher_get_token_price(upstream.http, request.token_address,
                                                 request.vs_currency)
    /\ pc' = "fetched"
    /\ UNCHANGED <<source_prices, result, float_digits, request, upstream, response>>

\* one call of DEXFetcher.get_token_price
DexGetTokenPrice ==
    /\ pc = "request"
    /\ "pair" \in DOMAIN upstream
    /\ quote' = DEXFetcher_get_token_price(w3_instances, upstream.pair,
                                           request.token_address, request.chain_id,
                                           request.pair_address)
    /\ pc' = "fetched"
    /\ UNCHANGED <<source_prices, result, float_digits, request, upstream, response>>

\* the handler's locals and its response become the state
Served(served) ==
    /\ quote' = served.coingecko_data
    /\ source_prices' = <<served.coingecko_data>>
    /\ result' = served.result
    /\ response' = served.response

\* one request to POST /entrypoints/price-oracle/invoke
Invoke ==
    /\ pc = "request"
    /\ "http" \in DOMAIN upstream
    /\ Served(get_token_price(request, upstream.http, UtcNow))
    /\ pc' = "responded"
    /\ UNCHANGED <<float_digits, request, upstream>>

NextService == CoinGeckoGetTokenPrice \/ DexGetTokenPrice \/ Invoke

SpecService == InitService /\ [][NextService]_vars

(***************************************************************************)
(* Vocabulary of the properties, stated on the input list and the          *)
(* returned result                                                         *)
(***************************************************************************)
Returned == pc = "done"

\* positions of the input quotes with a present, strictly positive price
ValidIdx ==
    {i \in 1..Len(source_prices) :
        /\ "price_usd" \in DOMAIN source_prices[i]
        /\ source_prices[i]["price_usd"] # None
        /\ source_prices[i]["price_usd"].n > 0}

ValidCount == Cardinality(ValidIdx)

PriceAt(i) == source_prices[i]["price_usd"]

\* the confidence of the i-th quote, 0.5 when the quote supplies none
ConfAt(i) ==
    IF "confidence" \in DOMAIN source_prices[i]
    THEN source_prices[i]["confidence"] ELSE Rat(1, 2)

PriceResultFields ==
    {"token_address", "chain_id", "price_usd", "confidence", "sources_count",
     "price_range", "sources", "warnings", "timestamp"}

IsPriceResult(r) == DOMAIN r = PriceResultFields

WarningTexts(r) == [i \in 1..Len(r.warnings) |-> r.warnings[i].text]

\* C1: aggregate_prices never raises: for every list of well-typed quotes
\* (empty, all invalid, or valid with confidences summing to 0 included) the
\* call returns a PriceResult, and the failure of every source shows in it
\* as zero price, zero confidence and a warning.
C1_NeverRaises ==
    Returned =>
        /\ ~IsExc(result)
        /\ IsPriceResult(result)
        /\ (ValidIdx = {} =>
               /\ RIsZero(result.price_usd)
               /\ RIsZero(result.confidence)
               /\ result.warnings # <<>>)

\* two or more valid quotes whose confidences are all 0: the call returned
C1_Witness ==
    /\ Returned
    /\ ValidCount >= 2
    /\ \A i \in ValidIdx : RIsZero(ConfAt(i))
    /\ IsPriceResult(result)

\* C2: with no valid quote the result is the error result: zero price, zero
\* confidence, zero count, zero range, the full input list as sources, and
\* exactly one warning, the no-valid-price one.
C2_ErrorResult ==
    (Returned /\ ValidIdx = {}) =>
        /\ result.price_usd = Zero
        /\ result.confidence = Zero
        /\ result.sources_count = 0
        /\ result.price_range = [min |-> Zero, max |-> Zero, spread_percent |-> Zero]
        /\ result.sources = source_prices
        /\ WarningTexts(result) = <<"No valid price sources available">>

\* several quotes, none of them valid, one of them a failure record
C2_Witness ==
    /\ Returned
    /\ ValidIdx = {}
    /\ Len(source_prices) >= 2
    /\ \E i \in 1..Len(source_prices) : "error" \in DOMAIN source_prices[i]
    /\ result.sources = source_prices

\* C3: the returned price_usd is 0.0 if and only if the input holds no valid
\* quote; any strictly positive price, however small, gives a non-zero price.
C3_ZeroPriceIffNoValid ==
    Returned => (RIsZero(result.price_usd) <=> ValidIdx = {})

\* r is x rounded to k decimal places: r = m / 10^k for an integer m, and x
\* lies within half of 10^-k of it, that is 2m - 1 <= 2 * 10^k * x <= 2m + 1
IsRounded(r, x, k) ==
    LET m == r.n * (Ten(k) \div r.d)
        y == RMul(x, Int2Rat(2 * Ten(k)))
    IN  /\ Ten(k) % r.d = 0
        /\ 2 * m - 1 <= y.n \div y.d
        /\ -((-y.n) \div y.d) <= 2 * m + 1

HasWarning(r, text) == \E i \in 1..Len(r.warnings) : r.warnings[i].text = text

HighSpreadText == "High price spread: {spread_pct:.1f}% between sources"

VeryHighSpreadText ==
    "VERY HIGH SPREAD - Price may be unreliable or arbitrage opportunity"

SingleSourceText == "Single price source - confidence reduced"

FailedSourcesText == "{failed} source(s) failed to provide price"

\* C4: with quote confidences in [0, 1] the returned confidence lies in
\* [0.0, 1.0], whether no, one or several quotes are valid.
C4_ConfidenceInUnitInterval ==
    Returned =>
        /\ result.confidence.n >= 0
        /\ result.confidence.n <= result.confidence.d

\* several valid quotes of confidence 1 in perfect agreement: base plus
\* bonus exceeds 1 and the result reports exactly 1
C4_Witness ==
    /\ Returned
    /\ ValidCount >= 2
    /\ \A i \in ValidIdx : ConfAt(i) = Int2Rat(1)
    /\ \A i, j \in ValidIdx : PriceAt(i) = PriceAt(j)
    /\ result.confidence = Int2Rat(1)

C6_SingleSource ==
    (Returned /\ ValidCount = 1) =>
        \A i \in ValidIdx :
            /\ IsRounded(result.price_usd, PriceAt(i), 6)
            /\ result.price_range.min = result.price_usd
            /\ result.price_range.max = result.price_usd
            /\ result.price_range.spread_percent = Zero
            /\ result.sources_count = 1
            /\ IsRounded(result.confidence, RMul(ConfAt(i), Rat(8, 10)), 3)
            /\ HasWarning(result, SingleSourceText)
            /\ ~HasWarning(result, HighSpreadText)
            /\ ~HasWarning(result, VeryHighSpreadText)

\* one valid quote without a confidence key among invalid ones: 0.5 * 0.8
C6_Witness ==
    /\ Returned
    /\ ValidCount = 1
    /\ Len(source_prices) >= 2
    /\ \A i \in ValidIdx : "confidence" \notin DOMAIN source_prices[i]
    /\ result.confidence = Rat(4, 10)
    /\ result.price_usd = Rat(1, 10000)

(***************************************************************************)
(* The statistics of the valid quotes, written from their definitions      *)
(***************************************************************************)
ValidPriceOf == [i \in ValidIdx |-> PriceAt(i)]

ValidConfOf == [i \in ValidIdx |-> ConfAt(i)]

\* sum over the valid quotes of price * confidence
RECURSIVE WeightedPriceSum(_)
WeightedPriceSum(S) ==
    IF S = {} THEN Zero
    ELSE LET i == CHOOSE j \in S : TRUE
         IN  RAdd(RMul(PriceAt(i), ConfAt(i)), WeightedPriceSum(S \ {i}))

\* sum over the valid quotes of the confidences
RECURSIVE WeightSum(_)
WeightSum(S) ==
    IF S = {} THEN Zero
    ELSE LET i == CHOOSE j \in S : TRUE
         IN  RAdd(ConfAt(i), WeightSum(S \ {i}))

\* the k-th smallest value of the family f, counted with multiplicity
KthSmallest(f, k) ==
    LET i == CHOOSE j \in DOMAIN f :
                 /\ Cardinality({m \in DOMAIN f : RLess(f[m], f[j])}) < k
                 /\ k <= Cardinality({m \in DOMAIN f : RLeq(f[m], f[j])})
    IN  f[i]

\* the median of the family f: its middle value, or the mean of its two
\* middle values
MedianOf(f) ==
    LET n == Cardinality(DOMAIN f)
    IN  IF n % 2 = 1 THEN KthSmallest(f, (n + 1) \div 2)
        ELSE RMul(RAdd(KthSmallest(f, n \div 2), KthSmallest(f, (n \div 2) + 1)),
                  Rat(1, 2))

LowestValidPrice == KthSmallest(ValidPriceOf, 1)

HighestValidPrice == KthSmallest(ValidPriceOf, ValidCount)

\* the consensus price of two or more valid quotes
ConsensusPrice ==
    IF RIsZero(WeightSum(ValidIdx)) THEN MedianOf(ValidPriceOf)
    ELSE RMul(WeightedPriceSum(ValidIdx), RInv(WeightSum(ValidIdx)))

\* the spread in percent of the consensus price
SpreadPct ==
    IF ValidCount = 1 \/ ~RGreater(ConsensusPrice, Zero) THEN Zero
    ELSE RMul(RMul(RSub(HighestValidPrice, LowestValidPrice), RInv(ConsensusPrice)),
              Int2Rat(100))

SpreadPenalty ==
    IF RGreater(SpreadPct, Int2Rat(5))
    THEN RMin2(RMul(RSub(SpreadPct, Int2Rat(5)), Rat(1, 100)), Rat(3, 10))
    ELSE Zero

CorroborationBonus == RMin2(Rat(ValidCount, 10), Rat(2, 10))

Clamp(x, lo, hi) == IF RLess(x, lo) THEN lo ELSE IF RLess(hi, x) THEN hi ELSE x

\* C7: with two or more valid quotes the consensus price is
\* sum(price_i * confidence_i) / sum(confidence_i) over the valid quotes
\* only, and the median of the valid prices when the confidences sum to
\* zero; no division by zero occurs.  price_usd is that value rounded to 6
\* decimal places.
C7_WeightedMeanOrMedian ==
    (Returned /\ ValidCount >= 2) =>
        /\ ~IsExc(result)
        /\ IsRounded(result.price_usd, ConsensusPrice, 6)

\* valid quotes of different prices and different non-zero weights beside an
\* invalid quote that carries a confidence
C7_Witness ==
    /\ Returned
    /\ ValidCount >= 2
    /\ ValidCount < Len(source_prices)
    /\ \E i, j \in ValidIdx :
          /\ RLess(PriceAt(i), PriceAt(j))
          /\ RLess(ConfAt(i), ConfAt(j))
          /\ ~RIsZero(ConfAt(i))
    /\ IsRounded(result.price_usd, ConsensusPrice, 6)

\* C8: with two or more valid quotes the confidence is
\* clamp(median(confidence_i) + min(0.1 * valid_count, 0.2) - penalty, 0.1, 1.0)
\* with penalty = min((spread_pct - 5.0)/100, 0.3) when spread_pct > 5.0 and
\* 0 otherwise; the result carries it rounded to 3 decimal places.
C8_ConfidenceFormula ==
    (Returned /\ ValidCount >= 2) =>
        IsRounded(result.confidence,
                  Clamp(RSub(RAdd(MedianOf(ValidConfOf), CorroborationBonus),
                             SpreadPenalty),
                        Rat(1, 10), Int2Rat(1)),
                  3)

\* three valid quotes, a spread above 35% so that the penalty is capped, and
\* a confidence that neither clamp has touched
C8_Witness ==
    /\ Returned
    /\ ValidCount >= 3
    /\ RGreater(SpreadPct, Int2Rat(35))
    /\ RLess(Rat(1, 10), result.confidence)
    /\ RLess(result.confidence, Int2Rat(1))

\* C9: in every non-error result price_range.min and price_range.max are the
\* lowest and the highest price of the valid quotes only, and spread_percent
\* is (max - min) / consensus price * 100, 0 when the consensus price is 0
\* and 0 for a single valid quote; min and max are rounded to 6 decimal
\* places and spread_percent to 2.
C9_PriceRange ==
    (Returned /\ ValidCount >= 1) =>
        /\ IsRounded(result.price_range.min, LowestValidPrice, 6)
        /\ IsRounded(result.price_range.max, HighestValidPrice, 6)
        /\ IsRounded(result.price_range.spread_percent, SpreadPct, 2)
        /\ (ValidCount = 1 => result.price_range.spread_percent = Zero)

\* two or more valid quotes of different prices beside a quote whose price
\* is negative
C9_Witness ==
    /\ Returned
    /\ ValidCount >= 2
    /\ \E i \in 1..Len(source_prices) :
          /\ "price_usd" \in DOMAIN source_prices[i]
          /\ source_prices[i]["price_usd"] # None
          /\ source_prices[i]["price_usd"].n < 0
    /\ RLess(result.price_range.min, result.price_range.max)
    /\ RGreater(result.price_range.spread_percent, Zero)

\* the warnings of a non-error result, in the order of the specification
ExpectedWarningTexts ==
    (IF RGreater(SpreadPct, Int2Rat(5)) THEN <<HighSpreadText>> ELSE <<>>)
    \o (IF RGreater(SpreadPct, Int2Rat(15)) THEN <<VeryHighSpreadText>> ELSE <<>>)
    \o (IF ValidCount = 1 THEN <<SingleSourceText>> ELSE <<>>)
    \o (IF ValidCount < Len(source_prices) THEN <<FailedSourcesText>> ELSE <<>>)

\* C10: in every non-error result the warnings are, in this order and each
\* exactly when its condition holds: high spread (spread_pct > 5), very high
\* spread (spread_pct > 15), single source (valid_count = 1), failed sources
\* (valid_count < total, naming total - valid_count); no no-valid-data
\* warning is among them.
C10_WarningOrder ==
    (Returned /\ ValidCount >= 1) =>
        /\ WarningTexts(result) = ExpectedWarningTexts
        /\ \A i \in 1..Len(result.warnings) :
              result.warnings[i].text = FailedSourcesText =>
                  result.warnings[i].failed = Len(source_prices) - ValidCount

\* both spread warnings followed by the failed-sources warning
C10_Witness ==
    /\ Returned
    /\ ValidCount >= 2
    /\ WarningTexts(result) = <<HighSpreadText, VeryHighSpreadText, FailedSourcesText>>
    /\ result.warnings[3].failed = Len(source_prices) - ValidCount

(***************************************************************************)
(* Permutations of the quote sequence                                      *)
(***************************************************************************)
\* the bijections of 1..n
Perms(n) == {f \in [1..n -> 1..n] : \A i, j \in 1..n : f[i] = f[j] => i = j}

\* the sequence seq rearranged by the bijection f
Permuted(seq, f) == [i \in 1..Len(seq) |-> seq[f[i]]]

\* the fields of a result that do not depend on the order of the sources
OrderFreeFields ==
    {"price_usd", "confidence", "sources_count", "price_range", "warnings"}

SameOrderFreeFields(r1, r2) == \A k \in OrderFreeFields : r1[k] = r2[k]

\* C11: aggregate_prices is order-independent: for every quote sequence and
\* every permutation of it the two results have identical price_usd,
\* confidence, sources_count, price_range and warnings.
C11_OrderIndependent ==
    Returned =>
        \A f \in Perms(Len(source_prices)) :
            SameOrderFreeFields(
                result,
                aggregate_prices(TokenAddress, ChainId,
                                 Permuted(source_prices, f)))

\* the elements of seq at the positions in S, in the order of seq
RECURSIVE Pick(_, _)
Pick(seq, S) ==
    IF seq = <<>> THEN <<>>
    ELSE Pick(SubSeq(seq, 1, Len(seq) - 1), S)
         \o (IF Len(seq) \in S THEN <<seq[Len(seq)]>> ELSE <<>>)

\* C12: in every non-error result, sources is exactly the subsequence of
\* the valid input quotes in input order, each quote with all its fields
\* unmodified, and sources_count is the length of that list; the call leaves
\* the input list as it was.
C12_SourcesPassThrough ==
    /\ []((Returned /\ ValidIdx # {}) =>
            /\ result.sources = Pick(source_prices, ValidIdx)
            /\ result.sources_count = Len(result.sources))
    /\ [][source_prices' = source_prices]_vars

\* a call returned for a list with an invalid quote between two different
\* valid ones, the first of which carries a provenance field
C12_Witness ==
    /\ Returned
    /\ Len(source_prices) = 3
    /\ ValidIdx = {1, 3}
    /\ source_prices[1] # source_prices[3]
    /\ "method" \in DOMAIN source_prices[1]
    /\ result.sources = <<source_prices[1], source_prices[3]>>

\* one unit of the sixth decimal, the quantum of price_usd and price_range
PriceQuantum == Rat(1, 1000000)

\* the prices and the confidences the engine extracts from the valid quotes
ValidPriceList ==
    [i \in 1..ValidCount |-> Pick(source_prices, ValidIdx)[i]["price_usd"]]

ValidConfidenceList ==
    [i \in 1..ValidCount |->
        get(Pick(source_prices, ValidIdx)[i], "confidence", Rat(1, 2))]

\* C17: in every non-error result computed from valid quotes with
\* non-negative confidences, the consensus price lies between the minimum
\* and the maximum valid price up to rounding, on the weighted-mean branch
\* and on the median-fallback branch: price_usd is no more than one unit of
\* the sixth decimal below price_range.min or above price_range.max; the
\* consensus price the statistics compute is strictly positive and
\* spread_percent is never negative.
C17_PriceWithinRange ==
    (Returned /\ ValidIdx # {}) =>
        /\ RLeq(RSub(result.price_range.min, PriceQuantum), result.price_usd)
        /\ RLeq(result.price_usd, RAdd(result.price_range.max, PriceQuantum))
        /\ RGreater(PriceStatistics(ValidPriceList, ValidConfidenceList).final_price,
                    Zero)
        /\ RLeq(Zero, result.price_range.spread_percent)

\* a weighted mean of two or more valid quotes that floating-point rounding
\* took below the lowest price: price_usd is one unit under price_range.min
C17_Witness ==
    /\ Returned
    /\ ValidCount >= 2
    /\ ~RIsZero(WeightSum(ValidIdx))
    /\ result.price_usd = RSub(result.price_range.min, PriceQuantum)

\* the list of n copies of the quote q
Copies(q, n) == [i \in 1..n |-> q]

\* C18: corroboration never lowers trust: n >= 2 valid quotes that all
\* report the price p with the confidence c give a confidence greater than
\* or equal to the confidence of the single quote (p, c), and the same
\* consensus price.
C18_CorroborationKeepsPrice ==
    (Returned /\ ValidCount >= 2 /\ source_prices = Copies(source_prices[1], ValidCount)) =>
        LET single == aggregate_prices(TokenAddress, ChainId, <<source_prices[1]>>)
        IN  /\ RLeq(single.confidence, result.confidence)
            /\ result.price_usd = single.price_usd

\* the confidence half of C18 alone
C18_CorroborationConfidence ==
    (Returned /\ ValidCount >= 2 /\ source_prices = Copies(source_prices[1], ValidCount)) =>
        RLeq(aggregate_prices(TokenAddress, ChainId, <<source_prices[1]>>).confidence,
             result.confidence)

(***************************************************************************)
(* The adapters and the handler                                            *)
(***************************************************************************)
\* an adapter call has returned, by itself or inside the handler
Fetched == pc \in {"fetched", "responded"}

\* the quote reports no price or an error
FailedFetch == get(quote, "price_usd", None) = None \/ "error" \in DOMAIN quote

\* C13: an adapter failure is never escalated to an exception: for every
\* outcome of the underlying call the two get_token_price adapters return a
\* quote carrying a source identifier, and a failed quote has price_usd None
\* together with an error field that holds a description.
C13_FailureIsAQuote ==
    Fetched =>
        /\ ~Raised(quote)
        /\ "source" \in DOMAIN quote
        /\ "price_usd" \in DOMAIN quote
        /\ FailedFetch =>
               /\ quote.price_usd = None
               /\ "error" \in DOMAIN quote
               /\ quote.error # Str("")

\* the handler has answered the request
Responded == pc = "responded"

\* a field the response model rejects: an optional number that is a text
RejectedByModel ==
    \E k \in {"change_24h", "market_cap", "volume_24h"} :
        get(quote, k, None) # None /\ ~IsNum(get(quote, k, None))

\* what the engine returns for the quote the handler collected
EngineResult == aggregate_prices(request.token_address, request.chain_id, source_prices)

\* C14: the handler answers a request whose adapter yielded no valid quote
\* with HTTP 200 and a body of price_usd 0.0, confidence 0 and the critical
\* warning; it answers 500 only when a call inside it raised; and every 200
\* body echoes the fields of the engine's result, with a timestamp that the
\* handler set after the aggregation.
C14_TotalFailureIs200 ==
    Responded =>
        /\ response.status_code \in {200, 500}
        /\ response.status_code = 500 => (IsExc(EngineResult) \/ RejectedByModel)
        /\ (~IsValidSource(quote) /\ ~RejectedByModel) =>
               /\ response.status_code = 200
               /\ response.body.price_usd = Zero
               /\ response.body.confidence = Zero
               /\ response.body.sources_count = 0
               /\ response.body.warnings =
                      <<ErrorWarning("No valid price sources available")>>
        /\ response.status_code = 200 =>
               /\ \A k \in PriceResultFields \ {"timestamp"} :
                      response.body[k] = EngineResult[k]
               /\ EngineResult.timestamp = ""
               /\ response.body.timestamp = UtcNow \o "Z"
               /\ result = [EngineResult EXCEPT !.timestamp = UtcNow \o "Z"]

\* a request whose upstream call timed out, answered with the 200 body of a
\* total failure
C14_Witness ==
    /\ Responded
    /\ upstream.http = RaiseMsg("TimeoutError", "")
    /\ ~IsValidSource(quote)
    /\ response.status_code = 200
    /\ response.body.confidence = Zero

\* C15: the price of every quote an adapter returns is either None, with an
\* error description, or a strictly positive number: a pair whose quote-side
\* reserve is 0 or a provider price of 0 or null gives a failed quote.
C15_PriceAbsentOrPositive ==
    Fetched =>
        \/ quote.price_usd = None /\ "error" \in DOMAIN quote
        \/ IsNum(quote.price_usd) /\ RGreater(quote.price_usd, Zero)

\* CoinGeckoFetcher.get_token_price has produced a priced quote
CoinGeckoPriced ==
    /\ Fetched
    /\ "http" \in DOMAIN upstream
    /\ "method" \in DOMAIN quote

\* C16: CoinGeckoFetcher.get_token_price routes by token identity: an address
\* that is a key of TOKEN_IDS is priced by the simple-price lookup with the
\* quote confidence 0.95, and only an address outside TOKEN_IDS is priced by
\* the contract-address lookup with the quote confidence 0.85.
C16_RoutesByTokenIdentity ==
    CoinGeckoPriced =>
        IF request.token_address \in DOMAIN TOKEN_IDS
        THEN quote.method = Str("simple_price") /\ quote.confidence = Rat(95, 100)
        ELSE quote.method = Str("contract_price") /\ quote.confidence = Rat(85, 100)

====
